---- MODULE Spec2Model ----
(***************************************************************************)
(* Model of the ecosystem-map catalogue (status variant of EcosystemMap):  *)
(* dataset load, facet/filter/colour construction, chip toggles, free-text *)
(* search, the theme switch, the rendering of the project cards, and, each *)
(* on its own, the activity classifier, the name sort and the chip order   *)
(* of a filter block.                                                      *)
(*                                                                         *)
(* Text (names, descriptions, the query) is a sequence of one-character    *)
(* strings; facet values are atomic strings.  A JavaScript object is a     *)
(* TLA+ record and a property that is undefined is a field that is absent  *)
(* from the record's DOMAIN.  An insertion-ordered JavaScript map          *)
(* ({[key: string]: T}) is a sequence of [key, value] entries.             *)
(***************************************************************************)
EXTENDS Integers, Sequences, FiniteSets, TLC

\* ------------------------------------------------------------------------
\* Bounds
\* ------------------------------------------------------------------------
\* Longest dataset (number of records in projects.json) that is loaded.
MaxRecords == 2
\* Largest age, in whole days, of a last-pushed timestamp that is classified.
MaxDays == 182
\* Largest number of keys of the filters map handed to a filter block.
MaxKeys == 3
\* Longest array handed to sortProjects on its own.
MaxSorted == 3

\* ------------------------------------------------------------------------
\* Strings
\* ------------------------------------------------------------------------
UpperCase ==
  <<"A","B","C","D","E","F","G","H","I","J","K","L","M",
    "N","O","P","Q","R","S","T","U","V","W","X","Y","Z">>

LowerCase ==
  <<"a","b","c","d","e","f","g","h","i","j","k","l","m",
    "n","o","p","q","r","s","t","u","v","w","x","y","z">>

IsUpper(c) == \E i \in 1..26 : UpperCase[i] = c

IsLower(c) == \E i \in 1..26 : LowerCase[i] = c

\* UTF-16 code unit of a character (space, A-Z, a-z).
CharCode(c) ==
  IF IsUpper(c) THEN 64 + (CHOOSE i \in 1..26 : UpperCase[i] = c)
  ELSE IF IsLower(c) THEN 96 + (CHOOSE i \in 1..26 : LowerCase[i] = c)
  ELSE 32

\* String.prototype.toLowerCase
LowerChar(c) ==
  IF IsUpper(c) THEN LowerCase[CHOOSE i \in 1..26 : UpperCase[i] = c] ELSE c

toLowerCase(s) == [i \in 1..Len(s) |-> LowerChar(s[i])]

\* String.prototype.trim
RECURSIVE trimStart(_)
trimStart(s) ==
  IF s # <<>> /\ Head(s) = " " THEN trimStart(Tail(s)) ELSE s

RECURSIVE trimEnd(_)
trimEnd(s) ==
  IF s # <<>> /\ s[Len(s)] = " " THEN trimEnd(SubSeq(s, 1, Len(s) - 1)) ELSE s

trim(s) == trimEnd(trimStart(s))

\* String.prototype.includes
includes(s, q) ==
  \E i \in 0..(Len(s) - Len(q)) : SubSeq(s, i + 1, i + Len(q)) = q

\* a < b on strings: lexicographic by code unit.
RECURSIVE StrLess(_, _)
StrLess(a, b) ==
  IF b = <<>> THEN FALSE
  ELSE IF a = <<>> THEN TRUE
  ELSE IF CharCode(Head(a)) < CharCode(Head(b)) THEN TRUE
  ELSE IF CharCode(Head(a)) > CharCode(Head(b)) THEN FALSE
  ELSE StrLess(Tail(a), Tail(b))

\* ------------------------------------------------------------------------
\* Insertion-ordered maps
\* ------------------------------------------------------------------------
\* Object.keys(m)
Keys(m) == [i \in 1..Len(m) |-> m[i].key]

KeySet(m) == {m[i].key : i \in 1..Len(m)}

\* m[k] !== undefined
HasKey(m, k) == k \in KeySet(m)

\* m[k], for a key that is present
Get(m, k) == m[CHOOSE i \in 1..Len(m) : m[i].key = k].value

\* m[k] = v: an existing key keeps its position, a new key is appended.
Put(m, k, v) ==
  IF HasKey(m, k)
  THEN [i \in 1..Len(m) |->
          IF m[i].key = k THEN [key |-> k, value |-> v] ELSE m[i]]
  ELSE Append(m, [key |-> k, value |-> v])

\* Truthiness of a string item (`if (l)`, and the result of find()).
Truthy(l) == l # ""

\* ------------------------------------------------------------------------
\* Static tables of the container
\* ------------------------------------------------------------------------
cats == <<"category", "status", "target_audience", "ecosystem">>

Dims == {cats[i] : i \in 1..Len(cats)}

allowedEcosystems ==
  {"Acala Network", "Aleph Zero", "Astar Network", "Kusama", "Moonbeam",
   "Polkadot"}

\* Dimensions whose values are rendered as chips on a project card.
chipCategories == SelectSeq(cats, LAMBDA cat : cat # "ecosystem" /\ cat # "status")

\* ------------------------------------------------------------------------
\* Datasets: what projects.json may hold
\* ------------------------------------------------------------------------
Acala ==
  [name |-> <<"A","c","a","l","a">>,
   description |-> <<"D","e","F","i"," ","h","u","b">>,
   category |-> <<"DeFi">>,
   readiness |-> [business |-> "Scaling/Alliance", technology |-> "In production"],
   target_audience |-> <<"Startup">>,
   ecosystem |-> <<"Polkadot">>,
   metrics |-> [github_pushed_at |-> <<[value |-> 1700000000], [value |-> 1710000000]>>]]

\* An ecosystem outside the allow-list; no audience; no last-pushed series.
Moonbeam ==
  [name |-> <<"M","o","o","n","b","e","a","m">>,
   description |-> <<"E","V","M"," ","c","h","a","i","n">>,
   category |-> <<"EVM">>,
   readiness |-> [technology |-> "In development"],
   ecosystem |-> <<"Moonbeam", "Ethereum">>,
   metrics |-> [github_stars |-> <<[value |-> 7]>>]]

\* Several categories; no readiness, no audience, no description, no metrics.
Hydra ==
  [name |-> <<"H","y","d","r","a">>,
   category |-> <<"DeFi", "EVM">>,
   ecosystem |-> <<"Polkadot">>]

\* No category and no ecosystem; readiness without a technology value;
\* metrics without a last-pushed series.
Moonwell ==
  [name |-> <<"m","o","o","n","w","e","l","l">>,
   description |-> <<"M","o","o","n"," ","d","e","f","i">>,
   readiness |-> [business |-> "Scaling/Alliance"],
   target_audience |-> <<"Startup">>,
   metrics |-> [github_stars |-> <<[value |-> 12]>>]]

Pool == <<Acala, Moonbeam, Hydra, Moonwell>>

RECURSIVE SeqsUpTo(_, _)
SeqsUpTo(S, n) ==
  IF n = 0 THEN {<<>>}
  ELSE LET shorter == SeqsUpTo(S, n - 1)
       IN shorter \cup {Append(s, x) : s \in shorter, x \in S}

IsInjective(s) == \A i, j \in 1..Len(s) : s[i] = s[j] => i = j

\* A null entry of the parsed array.  Every property of it is undefined under
\* optional chaining (c?.category); a plain property access on it (a[column],
\* p.name, card.web) throws a TypeError.
Null == [null |-> TRUE]

isNull(p) == "null" \in DOMAIN p

\* Documents whose entries are all records: every sequence of distinct pool
\* records.
RecordDatasets ==
  {[i \in 1..Len(s) |-> Pool[s[i]]] :
     s \in {t \in SeqsUpTo(1..Len(Pool), MaxRecords) : IsInjective(t)}}

\* The parsed documents that are arrays: the record datasets, and the shorter
\* ones followed by a null entry.
Datasets ==
  RecordDatasets
    \cup {Append(d, Null) : d \in {w \in RecordDatasets : Len(w) < MaxRecords}}

\* Texts typed into the search box.
Queries ==
  {<<>>,
   <<" ", " ">>,
   <<"m","o","o","n">>,
   <<" ","D","e","F","i"," ">>}

\* ------------------------------------------------------------------------
\* State
\* ------------------------------------------------------------------------
VARIABLES
  objects,            \* the ProjectInfo objects of the parsed document, by reference
  ecosystemProjects,  \* Record Store: references into objects, in store order
  data,               \* visible list: references into objects
  filters,            \* Filter State: dimension -> map from facet value to flag
  counts,             \* dimension -> map from facet value to number of records
  query,              \* text of the search box
  colorMap,           \* facet value -> colour, as an insertion-ordered map
  theme,              \* "light" or "dark"
  labels,             \* activity label shown on each rendered card
  blockFilters,       \* filters prop of a filter block
  blockOrder,         \* order prop of a filter block (<<>> is undefined)
  blockOrdered,       \* the chips of the block's last render (<<>> before it)
  categoryShown,      \* the groups of the category block's last render
  loaded,             \* the fetch of projects.json has settled
  crashed,            \* an effect or a render threw and React unmounted the tree
  githubPushedAt,     \* argument of the activity indicator (<<>> is undefined)
  today,              \* evaluation instant of the activity indicator, epoch seconds
  indicator           \* label returned by the activity indicator

vars ==
  <<objects, ecosystemProjects, data, filters, counts, query, colorMap, theme,
    labels, loaded, crashed, githubPushedAt, today, indicator, blockFilters,
    blockOrder, blockOrdered, categoryShown>>

appVars ==
  <<objects, ecosystemProjects, data, filters, counts, query, colorMap, theme,
    labels, loaded, crashed>>

activityVars == <<githubPushedAt, today, indicator>>

blockVars == <<blockFilters, blockOrder, blockOrdered, categoryShown>>

Range(s) == {s[i] : i \in 1..Len(s)}

\* ------------------------------------------------------------------------
\* sortProjects
\* ------------------------------------------------------------------------
\* The comparator of sortProjects with sort = {column: "name", asc: true}.
\* A comparison with an undefined name is false both ways.
compare(a, b) ==
  LET less(x, y) == "name" \in DOMAIN x /\ "name" \in DOMAIN y
                    /\ StrLess(x.name, y.name)
      res == IF less(a, b) THEN -1 ELSE IF less(b, a) THEN 1 ELSE 0
  IN res

\* a[sort.column] on a null entry throws a TypeError.
compareThrows(a, b) == isNull(a) \/ isNull(b)

\* projects.sort(comparator) throws when the comparator does: every element of
\* an array of two or more is compared with another one at least once.
sortThrows(objs, projects) ==
  \E i, j \in 1..Len(projects) :
    i # j /\ compareThrows(objs[projects[i]], objs[projects[j]])

\* Variant of insertSorted that puts x before the elements it compares equal to.
RECURSIVE insertSorted_beforeEqual(_, _, _)
insertSorted_beforeEqual(objs, sorted, x) ==
  IF sorted = <<>> THEN <<x>>
  ELSE IF compare(objs[sorted[Len(sorted)]], objs[x]) < 0
       THEN Append(sorted, x)
       ELSE Append(insertSorted_beforeEqual(objs, SubSeq(sorted, 1, Len(sorted) - 1), x),
                   sorted[Len(sorted)])

\* Array.prototype.sort is stable: x goes after every element that does not
\* compare greater than it.
RECURSIVE insertSorted(_, _, _)
insertSorted(objs, sorted, x) ==
  IF sorted = <<>> THEN <<x>>
  ELSE IF compare(objs[sorted[Len(sorted)]], objs[x]) <= 0
       THEN Append(sorted, x)
       ELSE Append(insertSorted(objs, SubSeq(sorted, 1, Len(sorted) - 1), x),
                   sorted[Len(sorted)])

RECURSIVE sortProjects(_, _)
sortProjects(objs, projects) ==
  IF projects = <<>> THEN <<>>
  ELSE insertSorted(objs,
                    sortProjects(objs, SubSeq(projects, 1, Len(projects) - 1)),
                    projects[Len(projects)])

\* ------------------------------------------------------------------------
\* filterProjects
\* ------------------------------------------------------------------------
\* Object.keys(m).filter((k) => m[k])
selected(m) == SelectSeq(Keys(m), LAMBDA k : Get(m, k))

\* Variant of findIn in which an undefined field matches every value.
findIn_undefinedMatches(p, field, c) ==
  \/ field \notin DOMAIN p
  \/ \E j \in 1..Len(p[field]) : p[field][j] = c /\ Truthy(p[field][j])

\* p[field]?.find((d) => d === c), as a truth value
findIn(p, field, c) ==
  /\ field \in DOMAIN p
  /\ \E j \in 1..Len(p[field]) : p[field][j] = c /\ Truthy(p[field][j])

\* p.readiness?.technology === c
technologyIs(p, c) ==
  /\ "readiness" \in DOMAIN p
  /\ "technology" \in DOMAIN p.readiness
  /\ p.readiness.technology = c

every(s, P(_)) == \A i \in 1..Len(s) : P(s[i])

\* The selected values of each dimension, as filterProjects computes them
\* before it filters.
selections(f) ==
  [category |-> selected(f.category),
   status |-> selected(f.status),
   target_audience |-> selected(f.target_audience),
   ecosystem |-> selected(f.ecosystem)]

\* Variant of facetsPass with category.some(...) in place of category.every(...).
facetsPass_someCategory(p, sel) ==
  /\ \E i \in 1..Len(sel.category) : findIn(p, "category", sel.category[i])
  /\ every(sel.status, LAMBDA c : technologyIs(p, c))
  /\ every(sel.target_audience, LAMBDA c : findIn(p, "target_audience", c))
  /\ every(sel.ecosystem, LAMBDA c : findIn(p, "ecosystem", c))

\* The four facet conjuncts of the filter callback.
facetsPass(p, sel) ==
  /\ every(sel.category, LAMBDA c : findIn(p, "category", c))
  /\ every(sel.status, LAMBDA c : technologyIs(p, c))
  /\ every(sel.target_audience, LAMBDA c : findIn(p, "target_audience", c))
  /\ every(sel.ecosystem, LAMBDA c : findIn(p, "ecosystem", c))

\* The search conjunct throws a TypeError when toLowerCase is reached on an
\* undefined name or description.
searchThrows(p, search) ==
  /\ search # <<>>
  /\ \/ "name" \notin DOMAIN p
     \/ /\ ~includes(toLowerCase(p.name), search)
        /\ "description" \notin DOMAIN p

searchPass(p, search) ==
  \/ search = <<>>
  \/ includes(toLowerCase(p.name), search)
  \/ includes(toLowerCase(p.description), search)

\* On a null entry the first conjunct that is evaluated reads a property of
\* null (p.category, p.readiness, ..., p.name): the callback throws unless
\* nothing is selected and the search is empty.
nullThrows(sel, search) ==
  \/ \E D \in DOMAIN sel : sel[D] # <<>>
  \/ search # <<>>

\* Outcome of the filter callback on one record.
matchProject(p, sel, search) ==
  IF isNull(p) THEN (IF nullThrows(sel, search) THEN "throw" ELSE "keep")
  ELSE IF ~facetsPass(p, sel) THEN "drop"
  ELSE IF searchThrows(p, search) THEN "throw"
  ELSE IF searchPass(p, search) THEN "keep"
  ELSE "drop"

\* ecosystemProjects.filter(callback): the callbacks' outcomes in store order;
\* the kept records in store order, unless a callback threw.
filterOutcome(projects, outs) ==
  [threw  |-> \E i \in 1..Len(projects) : outs[i] = "throw",
   result |-> LET kept == SelectSeq([i \in 1..Len(projects) |-> i],
                                    LAMBDA i : outs[i] = "keep")
              IN [n \in 1..Len(kept) |-> projects[kept[n]]]]

filterWith(objs, projects, sel, search) ==
  filterOutcome(projects,
                [i \in 1..Len(projects) |->
                   matchProject(objs[projects[i]], sel, search)])

\* Variant of filterProjects that lower-cases the query without trimming it.
filterProjects_untrimmed(objs, projects, f, q) ==
  filterWith(objs, projects, selections(f), toLowerCase(q))

\* filterProjects: the list handed to setData, or threw when a callback throws.
filterProjects(objs, projects, f, q) ==
  filterWith(objs, projects, selections(f), toLowerCase(trim(q)))

\* ------------------------------------------------------------------------
\* toggleFilterByCategory
\* ------------------------------------------------------------------------
\* {...filters, [type]: {...filters[type], [key]: !filters[type][key]}}
toggleFilterByCategory(f, type, key) ==
  LET m == f[type]
      flipped == IF HasKey(m, key) THEN ~Get(m, key) ELSE TRUE
  IN [f EXCEPT ![type] = Put(m, key, flipped)]

\* ------------------------------------------------------------------------
\* Load: facet and count construction
\* ------------------------------------------------------------------------
emptyFilters ==
  [category |-> <<>>, status |-> <<>>, target_audience |-> <<>>, ecosystem |-> <<>>]

\* c?.[field]?.forEach((l) => { if (l) { f[l] = false; n[l] = (n[l] ?? 0) + 1 } }),
\* for the ecosystem dimension under the additional allowedEcosystems.has(l).
RECURSIVE addItems(_, _, _)
addItems(acc, items, allowListed) ==
  IF items = <<>> THEN acc
  ELSE LET l == Head(items)
           next ==
             IF Truthy(l) /\ (allowListed => l \in allowedEcosystems)
             THEN [f |-> Put(acc.f, l, FALSE),
                   n |-> Put(acc.n, l,
                             (IF HasKey(acc.n, l) THEN Get(acc.n, l) ELSE 0) + 1)]
             ELSE acc
       IN addItems(next, Tail(items), allowListed)

itemsOf(c, field) == IF field \in DOMAIN c THEN c[field] ELSE <<>>

\* Variant of technologyOf that reads readiness.business.
technologyOf_business(c) ==
  IF "readiness" \in DOMAIN c /\ "business" \in DOMAIN c.readiness
  THEN <<c.readiness.business>>
  ELSE <<>>

\* if (c?.readiness?.technology) { ... }: the status facet of one record
technologyOf(c) ==
  IF "readiness" \in DOMAIN c /\ "technology" \in DOMAIN c.readiness
  THEN <<c.readiness.technology>>
  ELSE <<>>

\* The body of d.forEach: one record's contribution to f and countMap.
addRecord(acc, c) ==
  LET dim(field) == [f |-> acc.f[field], n |-> acc.n[field]]
      cat == addItems(dim("category"), itemsOf(c, "category"), FALSE)
      sta == addItems(dim("status"), technologyOf(c), FALSE)
      aud == addItems(dim("target_audience"), itemsOf(c, "target_audience"),
                      FALSE)
      eco == addItems(dim("ecosystem"), itemsOf(c, "ecosystem"), TRUE)
  IN [f |-> [category |-> cat.f, status |-> sta.f,
             target_audience |-> aud.f, ecosystem |-> eco.f],
      n |-> [category |-> cat.n, status |-> sta.n,
             target_audience |-> aud.n, ecosystem |-> eco.n]]

RECURSIVE buildFacets(_, _)
buildFacets(acc, d) ==
  IF d = <<>> THEN acc ELSE buildFacets(addRecord(acc, Head(d)), Tail(d))

\* f and countMap after d.forEach
facetsOf(d) == buildFacets([f |-> emptyFilters, n |-> emptyFilters], d)

\* ------------------------------------------------------------------------
\* Load: colour map construction
\* ------------------------------------------------------------------------
\* The palette: a fixed finite sequence of RGB triples.
colors ==
  <<<<244, 67, 54>>, <<233, 30, 99>>, <<156, 39, 176>>, <<63, 81, 181>>,
    <<0, 150, 136>>>>

\* Variant of colorAt whose index is shifted by the length of the query.
colorAt_byQuery(idx) == colors[((idx + Len(query)) % Len(colors)) + 1]

\* colors[idx % colors.length] ?? [33, 150, 243], idx counted from 0
colorAt(idx) ==
  IF colors = <<>> THEN <<33, 150, 243>> ELSE colors[(idx % Len(colors)) + 1]

\* [...Object.keys(f.category), ...Object.keys(f.status),
\*  ...Object.keys(f.target_audience), ...Object.keys(f.ecosystem)]
colorKeys(f) ==
  Keys(f.category) \o Keys(f.status) \o Keys(f.target_audience)
    \o Keys(f.ecosystem)

\* keys.forEach((k, idx) => { c[k] = colour }): the map after the first n keys
RECURSIVE assignColors(_, _)
assignColors(keys, n) ==
  IF n = 0 THEN <<>>
  ELSE Put(assignColors(keys, n - 1), keys[n], colorAt(n - 1))

colorMapOf(f) == assignColors(colorKeys(f), Len(colorKeys(f)))

\* ------------------------------------------------------------------------
\* getActivityIndicator
\* ------------------------------------------------------------------------
ACTIVITY_INDICATORS ==
  [active |-> "Active", moderate |-> "Moderate", inactive |-> "Inactive",
   default |-> "Unknown"]

\* 60 * 60 * 24: the milliseconds per day of the code without the factor 1000.
SecondsPerDay == 86400

\* Number.isNaN(new Date(githubPushedAt * 1000).getTime()): a time value is
\* valid up to 100,000,000 days either side of the epoch.
isInvalidDate(seconds) ==
  \/ seconds \div SecondsPerDay >= 100000000
  \/ seconds \div SecondsPerDay < -100000000

\* getActivityIndicator(githubPushedAt) evaluated at the instant now.  Instants
\* are whole epoch seconds: diffMilliseconds is (now - githubPushedAt) * 1000
\* plus the milliseconds of now below one second, and its floored quotient by
\* 1000 * 60 * 60 * 24 is the floored quotient of the seconds by 60 * 60 * 24.
getActivityIndicator(pushedAt, now) ==
  IF pushedAt = <<>> \/ pushedAt[1] = 0
  THEN ACTIVITY_INDICATORS.default
  ELSE IF isInvalidDate(pushedAt[1])
  THEN ACTIVITY_INDICATORS.default
  ELSE LET diffDays == (now - pushedAt[1]) \div SecondsPerDay
       IN IF diffDays <= 90 THEN ACTIVITY_INDICATORS.active
          ELSE IF diffDays <= 180 THEN ACTIVITY_INDICATORS.moderate
          ELSE ACTIVITY_INDICATORS.inactive

\* new Date() while the cards are rendered: 2024-10-27T03:33:20Z.
RenderInstant == 1730000000

\* ------------------------------------------------------------------------
\* Rendering of the project cards
\* ------------------------------------------------------------------------
\* card.metrics?.github_pushed_at?.pop(): removes the last sample of the card
popPushedAt(p) ==
  IF /\ "metrics" \in DOMAIN p
     /\ "github_pushed_at" \in DOMAIN p.metrics
     /\ p.metrics.github_pushed_at # <<>>
  THEN [p EXCEPT !.metrics.github_pushed_at = SubSeq(@, 1, Len(@) - 1)]
  ELSE p

\* One render of <ProjectCards projects={cards}>: every card is rendered once.
renderCards(objs, cards) ==
  [id \in DOMAIN objs |-> IF id \in Range(cards) THEN popPushedAt(objs[id]) ELSE objs[id]]

\* card.metrics?.github_pushed_at?.pop()?.value: the value handed to
\* <ActivityIndicator>, <<>> when it is undefined.
poppedValue(p) ==
  IF /\ "metrics" \in DOMAIN p
     /\ "github_pushed_at" \in DOMAIN p.metrics
     /\ p.metrics.github_pushed_at # <<>>
  THEN <<p.metrics.github_pushed_at[Len(p.metrics.github_pushed_at)].value>>
  ELSE <<>>

\* The labels shown by one render of the cards, from the records as they are
\* before the render.
labelsOf(objs, cards) ==
  [id \in Range(cards) |-> getActivityIndicator(poppedValue(objs[id]), RenderInstant)]

\* card.web.site on a null card throws a TypeError while rendering.
renderThrows(objs, cards) == \E id \in Range(cards) : isNull(objs[id])

\* A state update is committed: the cards of the current list are rendered,
\* the effect on [filters, ecosystemProjects, query] runs filterProjects, and
\* the list it sets is rendered.  A throw inside the effect or the render
\* unmounts the tree.
commitEffect(first, shown, r) ==
  IF r.threw \/ renderThrows(first, r.result)
  THEN [objects |-> first, data |-> shown, labels |-> <<>>, crashed |-> TRUE]
  ELSE [objects |-> renderCards(first, r.result), data |-> r.result,
        labels |-> labelsOf(first, r.result), crashed |-> FALSE]

\* Variant of commit in which the effect does not run: the list shown stays.
commit_withoutEffect(objs, projects, shown, f, q) ==
  [objects |-> renderCards(objs, shown), data |-> shown,
   labels |-> labelsOf(objs, shown), crashed |-> FALSE]

commit(objs, projects, shown, f, q) ==
  commitEffect(renderCards(objs, shown), shown,
               filterProjects(objs, projects, f, q))

\* ------------------------------------------------------------------------
\* Chips the user can click
\* ------------------------------------------------------------------------
\* Chips of the filter blocks: one per key of the dimension's map.
blockChips(type) == KeySet(filters[type])

\* Chips on the visible cards: card[cat] for the chip categories, and
\* card.ecosystem.
cardChips(type) ==
  IF type \in Range(chipCategories) \cup {"ecosystem"}
  THEN UNION {Range(itemsOf(objects[data[i]], type)) : i \in 1..Len(data)}
  ELSE {}

\* ------------------------------------------------------------------------
\* Actions
\* ------------------------------------------------------------------------
\* The theme after mount: the stored preference, or the colour scheme the
\* browser prefers.
Themes == {"light", "dark"}

Init ==
  /\ objects = <<>>
  /\ ecosystemProjects = <<>>
  /\ data = <<>>
  /\ filters = emptyFilters
  /\ counts = emptyFilters
  /\ query = <<>>
  /\ colorMap = <<>>
  /\ theme \in Themes
  /\ labels = <<>>
  /\ loaded = FALSE
  /\ crashed = FALSE
  /\ githubPushedAt = <<>>
  /\ today = 0
  /\ indicator = ""
  /\ blockFilters = <<>>
  /\ blockOrder = <<>>
  /\ blockOrdered = <<>>
  /\ categoryShown = <<>>

\* sortProjects(d) at the end of the load: the sorted array is stored, unless
\* the sort throws, which leaves setEcosystemProjects uncalled.
loadStore(d, current) ==
  LET ids == [i \in 1..Len(d) |-> i]
  IN IF sortThrows(d, ids) THEN current ELSE sortProjects(d, ids)

\* The fetch of projects.json resolves with the array d.
Load ==
  \E d \in Datasets :
    /\ ~loaded
    /\ ~crashed
    /\ \E built \in {facetsOf(d)}, store \in {loadStore(d, ecosystemProjects)} :
         \E c \in {commit(d, store, data, built.f, query)} :
           /\ loaded' = TRUE
           /\ filters' = built.f
           /\ counts' = built.n
           /\ colorMap' = colorMapOf(built.f)
           /\ ecosystemProjects' = store
           /\ objects' = c.objects
           /\ data' = c.data
           /\ labels' = c.labels
           /\ crashed' = c.crashed
    /\ UNCHANGED <<query, theme, activityVars, blockVars>>

\* The fetch fails, res.json() rejects, or the document is not an array and
\* d.forEach throws: the promise rejects before any state is set.
LoadRejected ==
  /\ ~loaded
  /\ ~crashed
  /\ loaded' = TRUE
  /\ UNCHANGED <<objects, ecosystemProjects, data, filters, counts, query,
                 colorMap, theme, labels, crashed, activityVars, blockVars>>

\* A chip of dimension type with label key is clicked.
Toggle(type, key) ==
  /\ ~crashed
  /\ \E f \in {toggleFilterByCategory(filters, type, key)} :
       \E c \in {commit(objects, ecosystemProjects, data, f, query)} :
         /\ filters' = f
         /\ objects' = c.objects
         /\ data' = c.data
         /\ labels' = c.labels
         /\ crashed' = c.crashed
  /\ UNCHANGED <<ecosystemProjects, counts, query, colorMap, theme, loaded,
                 activityVars, blockVars>>

ToggleBlockChip ==
  \E type \in Dims : \E key \in blockChips(type) : Toggle(type, key)

ToggleCardChip ==
  \E type \in Dims : \E key \in cardChips(type) : Toggle(type, key)

\* The text of the search box changes to q.
Search ==
  \E q \in Queries :
    /\ ~crashed
    /\ q # query
    /\ query' = q
    /\ \E c \in {commit(objects, ecosystemProjects, data, filters, q)} :
         /\ objects' = c.objects
         /\ data' = c.data
         /\ labels' = c.labels
         /\ crashed' = c.crashed
    /\ UNCHANGED <<ecosystemProjects, filters, counts, colorMap, theme, loaded,
                   activityVars, blockVars>>

\* The mode button is clicked: the theme flips and the page is rendered again;
\* no dependency of the filter effect changed.
ToggleTheme ==
  /\ ~crashed
  /\ theme' = IF theme = "light" THEN "dark" ELSE "light"
  /\ objects' = renderCards(objects, data)
  /\ labels' = labelsOf(objects, data)
  /\ UNCHANGED <<ecosystemProjects, data, filters, counts, query, colorMap,
                 loaded, crashed, activityVars, blockVars>>

\* ------------------------------------------------------------------------
\* The activity indicator on its own
\* ------------------------------------------------------------------------
\* Evaluation instants: 2024-10-27T03:33:20Z and noon of the same day.
Instants == {1730000000, 1730030800}

\* Last-pushed values handed to the indicator at the instant now: undefined,
\* the epoch itself, one second in the future, and every age of 0..MaxDays
\* whole days, on the day boundary, one second and one second short of a day
\* past it.
PushedAtValues(now) ==
  {<<>>, <<0>>, <<now + 1>>}
    \cup {<<now - (d * SecondsPerDay + s)>> :
            d \in 0..MaxDays, s \in {0, 1, SecondsPerDay - 1}}

InitActivity ==
  /\ objects = <<>>
  /\ ecosystemProjects = <<>>
  /\ data = <<>>
  /\ filters = emptyFilters
  /\ counts = emptyFilters
  /\ query = <<>>
  /\ colorMap = <<>>
  /\ theme = "light"
  /\ labels = <<>>
  /\ loaded = FALSE
  /\ crashed = FALSE
  /\ today \in Instants
  /\ githubPushedAt \in PushedAtValues(today)
  /\ indicator = ""
  /\ blockFilters = <<>>
  /\ blockOrder = <<>>
  /\ blockOrdered = <<>>
  /\ categoryShown = <<>>

\* <ActivityIndicator githubPushedAt={...} /> is rendered.
ActivityIndicator ==
  /\ indicator = ""
  /\ indicator' = getActivityIndicator(githubPushedAt, today)
  /\ UNCHANGED <<appVars, githubPushedAt, today, blockVars>>

NextActivity == ActivityIndicator

SpecActivity == InitActivity /\ [][NextActivity]_vars

\* ------------------------------------------------------------------------
\* sortProjects on its own
\* ------------------------------------------------------------------------
\* Names of the records that are sorted: B < a < ab < b by code unit.
SortNames == {<<"B">>, <<"a">>, <<"a", "b">>, <<"b">>}

\* Arrays of up to MaxSorted records, names repeated or not.
SortInputs ==
  {[i \in 1..Len(ns) |-> [name |-> ns[i]]] : ns \in SeqsUpTo(SortNames, MaxSorted)}

InitSort ==
  /\ objects \in SortInputs
  /\ ecosystemProjects = [i \in 1..Len(objects) |-> i]
  /\ data = <<>>
  /\ filters = emptyFilters
  /\ counts = emptyFilters
  /\ query = <<>>
  /\ colorMap = <<>>
  /\ theme = "light"
  /\ labels = <<>>
  /\ loaded = FALSE
  /\ crashed = FALSE
  /\ githubPushedAt = <<>>
  /\ today = 0
  /\ indicator = ""
  /\ blockFilters = <<>>
  /\ blockOrder = <<>>
  /\ blockOrdered = <<>>
  /\ categoryShown = <<>>

\* sortProjects(): setEcosystemProjects(ecosystemProjects.sort(comparator))
SortProjects ==
  /\ ecosystemProjects' = sortProjects(objects, ecosystemProjects)
  /\ UNCHANGED <<objects, data, filters, counts, query, colorMap, theme, labels,
                 loaded, crashed, activityVars, blockVars>>

NextSort == SortProjects

SpecSort == InitSort /\ [][NextSort]_vars

\* ------------------------------------------------------------------------
\* The filter block on its own
\* ------------------------------------------------------------------------
statusOrder ==
  <<"Connected to Relay chain", "Connected to Parachain", "In production",
    "In development", "Validated POC / testnet", "In research", "Discontinued">>

ecosystemOrder == <<"Polkadot", "Kusama">>

\* The UTF-16 code units of the facet values that are sorted.
codeUnits(v) ==
  CASE v = "Polkadot" -> <<"P","o","l","k","a","d","o","t">>
    [] v = "Kusama" -> <<"K","u","s","a","m","a">>
    [] v = "Moonbeam" -> <<"M","o","o","n","b","e","a","m">>
    [] v = "Acala Network" -> <<"A","c","a","l","a"," ","N","e","t","w","o","r","k">>
    [] v = "Ethereum" -> <<"E","t","h","e","r","e","u","m">>
    [] v = "Startup" -> <<"S","t","a","r","t","u","p">>
    [] v = "Dev team" -> <<"D","e","v"," ","t","e","a","m">>
    [] v = "Individuals" -> <<"I","n","d","i","v","i","d","u","a","l","s">>
    [] v = "Institutional investor" ->
         <<"I","n","s","t","i","t","u","t","i","o","n","a","l"," ",
           "i","n","v","e","s","t","o","r">>
    [] v = "In production" -> <<"I","n"," ","p","r","o","d","u","c","t","i","o","n">>
    [] v = "In development" -> <<"I","n"," ","d","e","v","e","l","o","p","m","e","n","t">>
    [] v = "Discontinued" -> <<"D","i","s","c","o","n","t","i","n","u","e","d">>
    [] v = "Planned" -> <<"P","l","a","n","n","e","d">>
    [] v = "DeFi" -> <<"D","e","F","i">>
    [] v = "EVM" -> <<"E","V","M">>
    [] v = "Analytics" -> <<"A","n","a","l","y","t","i","c","s">>
    [] v = "Validator provider" ->
         <<"V","a","l","i","d","a","t","o","r"," ","p","r","o","v","i","d","e","r">>

\* Array.prototype.sort() without a comparator: ascending by code units, stable.
RECURSIVE insertString(_, _)
insertString(sorted, x) ==
  IF sorted = <<>> THEN <<x>>
  ELSE IF ~StrLess(codeUnits(x), codeUnits(sorted[Len(sorted)]))
       THEN Append(sorted, x)
       ELSE Append(insertString(SubSeq(sorted, 1, Len(sorted) - 1), x),
                   sorted[Len(sorted)])

\* Variant of sortStrings that leaves the keys in insertion order.
sortStrings_unsorted(keys) == keys

RECURSIVE sortStrings(_)
sortStrings(keys) ==
  IF keys = <<>> THEN <<>>
  ELSE insertString(sortStrings(SubSeq(keys, 1, Len(keys) - 1)), keys[Len(keys)])

\* const ordered = order ? [...order.filter(...), ...keys.filter(...).sort()]
\*                       : keys.sort()
ordered(m, order) ==
  IF order # <<>>
  THEN SelectSeq(order[1], LAMBDA item : HasKey(m, item))
         \o sortStrings(SelectSeq(Keys(m), LAMBDA item : item \notin Range(order[1])))
  ELSE sortStrings(Keys(m))

\* The order prop the container passes for a dimension.
orderOf(cat) ==
  IF cat = "status" THEN <<statusOrder>>
  ELSE IF cat = "ecosystem" THEN <<ecosystemOrder>>
  ELSE <<>>

\* Facet values a dimension's map may have as keys; Planned and Ethereum are
\* on no priority list.
BlockKeys(cat) ==
  IF cat = "status"
  THEN {"In production", "In development", "Discontinued", "Planned"}
  ELSE IF cat = "ecosystem"
  THEN {"Polkadot", "Kusama", "Moonbeam", "Acala Network", "Ethereum"}
  ELSE {"Startup", "Dev team", "Individuals", "Institutional investor"}

\* The maps with the keys ks in this insertion order and any flags.
MapsOver(ks) ==
  {[i \in 1..Len(ks) |-> [key |-> ks[i], value |-> flags[i]]] :
     flags \in [1..Len(ks) -> BOOLEAN]}

\* The filters props: up to MaxKeys distinct keys in any insertion order.
BlockMaps(cat) ==
  UNION {MapsOver(ks) :
           ks \in {t \in SeqsUpTo(BlockKeys(cat), MaxKeys) : IsInjective(t)}}

InitBlock ==
  /\ objects = <<>>
  /\ ecosystemProjects = <<>>
  /\ data = <<>>
  /\ filters = emptyFilters
  /\ counts = emptyFilters
  /\ query = <<>>
  /\ colorMap = <<>>
  /\ theme = "light"
  /\ labels = <<>>
  /\ loaded = FALSE
  /\ crashed = FALSE
  /\ githubPushedAt = <<>>
  /\ today = 0
  /\ indicator = ""
  /\ \E cat \in Dims \ {"category"} :
       /\ blockFilters \in BlockMaps(cat)
       /\ blockOrder = orderOf(cat)
  /\ blockOrdered = <<>>
  /\ categoryShown = <<>>

\* <ChipFilterBlock filters={...} order={...} /> is rendered.
ChipFilterBlock ==
  /\ blockOrdered = <<>>
  /\ blockOrdered' = <<ordered(blockFilters, blockOrder)>>
  /\ UNCHANGED <<appVars, activityVars, blockFilters, blockOrder, categoryShown>>

NextBlock == ChipFilterBlock

SpecBlock == InitBlock /\ [][NextBlock]_vars

\* ------------------------------------------------------------------------
\* The category block on its own
\* ------------------------------------------------------------------------
categoryGroups ==
  <<[title |-> "Infrastructure",
     items |-> <<"API", "Data", "Indexer", "Infra", "Library", "Oracle",
                 "Tools", "XCM", "Bridge", "Smart Contracts", "EVM">>],
    [title |-> "Finance & Markets",
     items |-> <<"DeFi", "Exchange", "Staking", "Wallet", "Marketplace",
                 "Aggregator">>],
    [title |-> "Community & Governance",
     items |-> <<"DAO", "Governance", "Identity", "Privacy", "Social",
                 "Newsletter", "Alerts", "Education", "Video">>],
    [title |-> "Apps & Experiences",
     items |-> <<"Dapp", "Game", "NFT", "DePIN">>]>>

\* categoryGroups.some((group) => group.items.includes(item))
inSomeGroup(item) ==
  \E g \in 1..Len(categoryGroups) : item \in Range(categoryGroups[g].items)

\* Variant of groupItems that shows every item of the membership list.
groupItems_all(group, m) == group.items

\* group.items.filter((item) => filters.category[item] !== undefined)
groupItems(group, m) == SelectSeq(group.items, LAMBDA item : HasKey(m, item))

\* categoryGroups.map(...).filter((group) => group.items.length > 0)
namedGroups(m) ==
  SelectSeq([g \in 1..Len(categoryGroups) |->
               [title |-> categoryGroups[g].title,
                items |-> groupItems(categoryGroups[g], m)]],
            LAMBDA group : group.items # <<>>)

\* Object.keys(filters.category).filter((item) => !...some(...)).sort()
otherItems(m) ==
  sortStrings(SelectSeq(Keys(m), LAMBDA item : ~inSomeGroup(item)))

\* The groups of the category block in display order: the named groups with
\* a present item, then Other if some key is in no membership list.
categoryBlock(m) ==
  namedGroups(m)
    \o (IF \E i \in 1..Len(m) : ~inSomeGroup(m[i].key)
        THEN <<[title |-> "Other", items |-> otherItems(m)]>>
        ELSE <<>>)

\* Category values the map may have as keys; Analytics and Validator
\* provider are in no membership list.
CategoryKeys ==
  {"DeFi", "Wallet", "EVM", "NFT", "Analytics", "Validator provider"}

\* filters.category: up to MaxKeys distinct keys in any insertion order.
CategoryMaps ==
  UNION {MapsOver(ks) :
           ks \in {t \in SeqsUpTo(CategoryKeys, MaxKeys) : IsInjective(t)}}

InitGroups ==
  /\ objects = <<>>
  /\ ecosystemProjects = <<>>
  /\ data = <<>>
  /\ filters = emptyFilters
  /\ counts = emptyFilters
  /\ query = <<>>
  /\ colorMap = <<>>
  /\ theme = "light"
  /\ labels = <<>>
  /\ loaded = FALSE
  /\ crashed = FALSE
  /\ githubPushedAt = <<>>
  /\ today = 0
  /\ indicator = ""
  /\ blockFilters \in CategoryMaps
  /\ blockOrder = <<>>
  /\ blockOrdered = <<>>
  /\ categoryShown = <<>>

\* The category block is rendered.
CategoryBlock ==
  /\ categoryShown = <<>>
  /\ categoryShown' = <<categoryBlock(blockFilters)>>
  /\ UNCHANGED <<appVars, activityVars, blockFilters, blockOrder, blockOrdered>>

NextGroups == CategoryBlock

SpecGroups == InitGroups /\ [][NextGroups]_vars

Next ==
  Load \/ LoadRejected \/ ToggleBlockChip \/ ToggleCardChip \/ Search
    \/ ToggleTheme

Spec == Init /\ [][Next]_vars

\* ------------------------------------------------------------------------
\* Vocabulary of the properties
\* ------------------------------------------------------------------------
\* References of the records in the Record Store / in the visible list.
Store == Range(ecosystemProjects)

Visible(id) == id \in Range(data)

StoreNames == [i \in 1..Len(ecosystemProjects) |-> objects[ecosystemProjects[i]].name]

VisibleNames == [i \in 1..Len(data) |-> objects[data[i]].name]

SetDims == {"category", "target_audience", "ecosystem"}

\* The record's value set for a dimension; empty when the field is undefined.
ValueSet(p, D) ==
  IF D = "status"
  THEN IF "readiness" \in DOMAIN p /\ "technology" \in DOMAIN p.readiness
       THEN {p.readiness.technology}
       ELSE {}
  ELSE IF D \in DOMAIN p THEN Range(p[D]) ELSE {}

\* The record's field for a dimension is undefined.
Undefined(p, D) ==
  IF D = "status"
  THEN "readiness" \notin DOMAIN p \/ "technology" \notin DOMAIN p.readiness
  ELSE D \notin DOMAIN p

\* The selected values of a dimension.
Sel(D) == {filters[D][i].key : i \in {j \in 1..Len(filters[D]) : filters[D][j].value}}

NoSelection(DS) == \A D \in DS : Sel(D) = {}

\* The query trimmed and lower-cased.
NormQuery == toLowerCase(trim(query))

TextHas(p, field, q) == field \in DOMAIN p /\ includes(toLowerCase(p[field]), q)

\* The free-text constraint on a record.
SearchOK(p) ==
  NormQuery = <<>> \/ TextHas(p, "name", NormQuery) \/ TextHas(p, "description", NormQuery)

\* OR within a dimension: some selected value is among the record's values.
SomeSelected(p, D) == Sel(D) = {} \/ ValueSet(p, D) \cap Sel(D) # {}

\* Every selected value is among the record's values.
AllSelected(p, D) == Sel(D) \subseteq ValueSet(p, D)

moon == <<"m","o","o","n">>

\* ------------------------------------------------------------------------
\* Properties
\* ------------------------------------------------------------------------

\* C1: with no status selected and an empty query, a record is visible iff,
\* for each of category, target_audience and ecosystem that has selected
\* values, at least one selected value is among the record's values (OR within
\* a set-valued dimension).
C1_OrWithinSetDimension ==
  (~crashed /\ Sel("status") = {} /\ NormQuery = <<>>) =>
    \A id \in Store :
      Visible(id) <=> \A D \in SetDims : SomeSelected(objects[id], D)

\* C2: a record is visible iff it satisfies the constraint of every dimension
\* that has a selected value (some selected value is among its values) and
\* the free-text constraint; with nothing selected and an empty query the
\* visible list is the whole store; for the store [Acala, Moonbeam], selecting
\* DeFi shows [Acala], adding the search "moon" shows nothing, and deselecting
\* DeFi with the search still active shows [Moonbeam].
C2_ConjunctionAcrossDimensions ==
  ~crashed =>
    /\ \A id \in Store :
         Visible(id) <=>
           (\A D \in Dims : SomeSelected(objects[id], D)) /\ SearchOK(objects[id])
    /\ (NoSelection(Dims) /\ query = <<>>) => data = ecosystemProjects
    /\ (StoreNames = <<Acala.name, Moonbeam.name>> /\ NoSelection(Dims \ {"category"})) =>
         /\ (Sel("category") = {"DeFi"} /\ query = <<>>) => VisibleNames = <<Acala.name>>
         /\ (Sel("category") = {"DeFi"} /\ query = moon) => VisibleNames = <<>>
         /\ (Sel("category") = {} /\ query = moon) => VisibleNames = <<Moonbeam.name>>

\* C3: with only status values selected and an empty query, a record is
\* visible iff its readiness.technology equals one of the selected status
\* values.
C3_StatusEqualsSomeSelected ==
  (~crashed /\ NoSelection(SetDims) /\ NormQuery = <<>> /\ Sel("status") # {}) =>
    \A id \in Store :
      Visible(id) <=> ValueSet(objects[id], "status") \cap Sel("status") # {}

\* C4: with q the query trimmed and lower-cased, an empty q imposes no
\* constraint, and otherwise a record that meets the facet selections is
\* visible iff q is a substring of its lower-cased name or of its lower-cased
\* description; the query " DeFi " finds Acala by its description "DeFi hub"
\* and does not find Moonbeam.
C4_SearchConstraint ==
  ~crashed =>
    /\ \A id \in Store :
         Visible(id) <=>
           (\A D \in Dims : AllSelected(objects[id], D)) /\ SearchOK(objects[id])
    /\ (query = <<" ", " ">> /\ NoSelection(Dims)) => data = ecosystemProjects
    /\ (query = <<" ","D","e","F","i"," ">> /\ NoSelection(Dims)) =>
         \A id \in Store :
           /\ objects[id].name = Acala.name => Visible(id)
           /\ objects[id].name = Moonbeam.name => ~Visible(id)

\* C4 witness: the query " DeFi " is active, nothing is selected, and the
\* search keeps Acala and drops Moonbeam.
C4_Witness ==
  /\ ~crashed
  /\ query = <<" ","D","e","F","i"," ">>
  /\ NoSelection(Dims)
  /\ StoreNames = <<Acala.name, Moonbeam.name>>
  /\ VisibleNames = <<Acala.name>>

\* C5: while a dimension has a selected value, no record whose field for that
\* dimension is undefined is visible, and evaluating the facet constraints
\* of a record raises no error: over a store of records the filter throws
\* only inside a non-empty text search.
C5_AbsenceIsNotWildcard ==
  /\ ~crashed =>
       \A D \in Dims : Sel(D) # {} =>
         \A id \in Store : Undefined(objects[id], D) => ~Visible(id)
  /\ (crashed /\ \A id \in Store : ~isNull(objects[id])) => NormQuery # <<>>

\* C5 witness: a status and a category are selected, the store holds a record
\* without readiness and one without category, the filter completed, and a
\* record is visible.
C5_Witness ==
  /\ ~crashed
  /\ Sel("status") # {}
  /\ Sel("category") # {}
  /\ \E id \in Store : Undefined(objects[id], "status") /\ ~Undefined(objects[id], "category")
  /\ \E id \in Store : Visible(id)

\* C6: the keys of each dimension's Filter State map are exactly the facet
\* values derived from the loaded records (for ecosystem, the allow-listed
\* ones), in every state reached by toggles and searches.
C6_KeysAreFacetValues ==
  \A D \in Dims :
    KeySet(filters[D]) =
      {v \in UNION {ValueSet(objects[id], D) : id \in DOMAIN objects} :
         Truthy(v) /\ (D = "ecosystem" => v \in allowedEcosystems)}

\* C7: no ecosystem value outside the allow-list is ever a key of the
\* ecosystem Filter State.
C7_EcosystemAllowList == KeySet(filters.ecosystem) \subseteq allowedEcosystems

\* C8: clicking the same chip twice in a row restores the Filter State (same
\* keys, same flags) and the visible list.
C8_ToggleTwiceRestores ==
  ~crashed =>
    \A type \in Dims : \A key \in blockChips(type) \cup cardChips(type) :
      LET twice == toggleFilterByCategory(
                     toggleFilterByCategory(filters, type, key), type, key)
      IN /\ twice = filters
         /\ filterProjects(objects, ecosystemProjects, twice, query).result = data

\* C9: a record that the filter drops while a dimension has no selected value
\* (other dimensions and the query as they are) is not visible once values of
\* that dimension are selected: a selection never adds a record.
C9_MonotonicNarrowing ==
  ~crashed =>
    \A D \in Dims : Sel(D) # {} =>
      \A id \in Store :
        matchProject(objects[id], [selections(filters) EXCEPT ![D] = <<>>],
                     NormQuery) = "drop"
          => ~Visible(id)

\* C9 witness: two dimensions have a selection, a record is visible, and a
\* record that one selection alone already drops stays dropped.
C9_Witness ==
  /\ ~crashed
  /\ Sel("category") # {}
  /\ Sel("ecosystem") # {}
  /\ data # <<>>
  /\ \E id \in Store :
       /\ ~Visible(id)
       /\ matchProject(objects[id],
                       [selections(filters) EXCEPT !["category"] = <<>>],
                       NormQuery) = "drop"

\* C10: a missing timestamp is Unknown; otherwise, with d the whole days
\* between the last-pushed instant and the evaluation instant, the label is
\* Active for d <= 90, Moderate for 90 < d <= 180 and Inactive for d > 180.
C10_ActivityBoundaries ==
  indicator # "" =>
    IF githubPushedAt = <<>>
    THEN indicator = "Unknown"
    ELSE LET age == today - githubPushedAt[1]
         IN /\ age < 91 * SecondsPerDay => indicator = "Active"
            /\ (91 * SecondsPerDay <= age /\ age < 181 * SecondsPerDay)
                 => indicator = "Moderate"
            /\ 181 * SecondsPerDay <= age => indicator = "Inactive"

\* C11: the label is Unknown only when the timestamp is absent or does not
\* denote a valid instant: every present valid epoch-seconds value, 0
\* included, is labelled Active, Moderate or Inactive.
C11_UnknownOnlyAbsentOrInvalid ==
  indicator # "" =>
    (indicator = ACTIVITY_INDICATORS.default
       <=> (githubPushedAt = <<>> \/ isInvalidDate(githubPushedAt[1])))

\* The record of the document that a record of the store was parsed from.
AsLoaded(p) == CHOOSE r \in Range(Pool) : r.name = p.name

\* C12: rendering does not modify the records: in every state reached by
\* load, toggle, search and theme events each record is as it was loaded, and
\* the activity label shown on its card is the label of the last sample of
\* its last-pushed series as loaded.
C12_RenderKeepsRecords ==
  \A id \in DOMAIN objects :
    ~isNull(objects[id]) =>
      /\ objects[id] = AsLoaded(objects[id])
      /\ id \in DOMAIN labels =>
           labels[id] =
             getActivityIndicator(poppedValue(AsLoaded(objects[id])), RenderInstant)

\* C13: after every event, once its recomputation has completed, the visible
\* list is the Record Store filtered by the match rule on the current Filter
\* State and the current query, in store order.
C13_DerivedStateConsistency ==
  ~crashed =>
    data = SelectSeq(ecosystemProjects,
                     LAMBDA id : matchProject(objects[id], selections(filters),
                                              NormQuery) = "keep")

\* C13 witness: a category is selected and a query is typed, and the visible
\* list is a non-empty proper part of a store of two records.
C13_Witness ==
  /\ ~crashed
  /\ Sel("category") # {}
  /\ NormQuery # <<>>
  /\ Len(ecosystemProjects) = 2
  /\ Len(data) = 1

\* The facet values of a dimension present in the records of the document:
\* the non-empty values of the field and, for ecosystem, the allow-listed ones.
FacetValues(D) ==
  {v \in UNION {ValueSet(objects[id], D) : id \in DOMAIN objects} :
     Truthy(v) /\ (D = "ecosystem" => v \in allowedEcosystems)}

\* C14: the step that completes the load leaves, for every dimension, a
\* Filter State map whose keys are exactly the facet values present in the
\* loaded records and whose flags are all false, whatever preceded the load.
C14_LoadSeedsFilterState ==
  [][(~loaded /\ loaded') =>
       \A D \in Dims :
         /\ KeySet(filters'[D]) = FacetValues(D)'
         /\ \A i \in 1..Len(filters'[D]) : ~filters'[D][i].value]_vars

\* C14 witness: a load of two records has seeded all four dimensions with
\* unselected keys, and a record carries the ecosystem Ethereum, which is not
\* a key.
C14_Witness ==
  /\ loaded
  /\ ~crashed
  /\ Len(ecosystemProjects) = 2
  /\ \A D \in Dims : filters[D] # <<>>
  /\ NoSelection(Dims)
  /\ \E id \in Store : "Ethereum" \in ValueSet(objects[id], "ecosystem")
  /\ "Ethereum" \notin KeySet(filters.ecosystem)

\* C15: after load, for every dimension, the counts have an entry exactly for
\* the keys of the dimension's Filter State, and the count of a value is the
\* number of records of the Record Store that carry the value in the
\* dimension's field.
C15_FacetCounts ==
  loaded =>
    \A D \in Dims :
      /\ KeySet(counts[D]) = KeySet(filters[D])
      /\ \A v \in KeySet(counts[D]) :
           Get(counts[D], v) =
             Cardinality({id \in Store : v \in ValueSet(objects[id], D)})

\* Position of an item in a list that contains it.
IndexIn(list, item) == CHOOSE i \in 1..Len(list) : list[i] = item

\* C16: the chips of a filter block are a permutation of the keys of its
\* map; with a priority list the keys on the list come first, in the order
\* of the list, and the other keys follow in ascending order; without one
\* all keys are in ascending order.
C16_FacetDisplayOrder ==
  blockOrdered # <<>> =>
    LET shown == blockOrdered[1]
        priority == IF blockOrder = <<>> THEN <<>> ELSE blockOrder[1]
        listed(k) == k \in Range(priority)
    IN /\ Len(shown) = Cardinality(KeySet(blockFilters))
       /\ Range(shown) = KeySet(blockFilters)
       /\ \A i, j \in 1..Len(shown) :
            i < j =>
              /\ listed(shown[j]) => listed(shown[i])
              /\ (listed(shown[i]) /\ listed(shown[j])) =>
                   IndexIn(priority, shown[i]) < IndexIn(priority, shown[j])
              /\ (~listed(shown[i]) /\ ~listed(shown[j])) =>
                   StrLess(codeUnits(shown[i]), codeUnits(shown[j]))

\* C16 witness: the ecosystem block was rendered for a map whose keys were
\* inserted as Moonbeam, Polkadot, Ethereum and shows Polkadot, Ethereum,
\* Moonbeam.
C16_Witness ==
  /\ blockOrder = <<ecosystemOrder>>
  /\ Keys(blockFilters) = <<"Moonbeam", "Polkadot", "Ethereum">>
  /\ blockOrdered = <<<<"Polkadot", "Ethereum", "Moonbeam">>>>

C18_SortStable ==
  [][LET before == ecosystemProjects
         after == ecosystemProjects'
         name(id) == objects[id].name
     IN /\ Len(after) = Len(before)
        /\ Range(after) = Range(before)
        /\ \A i, j \in 1..Len(after) :
             i < j =>
               /\ ~StrLess(name(after[j]), name(after[i]))
               /\ name(after[i]) = name(after[j]) =>
                    IndexIn(before, after[i]) < IndexIn(before, after[j])
        /\ sortProjects(objects, after) = after]_vars

\* C18 witness: the store b, a, a was sorted: the two records named a come
\* first, in their prior order.
C18_Witness ==
  /\ Len(objects) = 3
  /\ objects[1].name = <<"b">>
  /\ objects[2].name = <<"a">>
  /\ objects[3].name = <<"a">>
  /\ ecosystemProjects = <<2, 3, 1>>

\* C19: with a non-empty query, the filter over a store of records, some of
\* them without description or name, completes without error, and a visible
\* record contains the query in a name or description that it has.
C19_UndefinedTextNeverCrashes ==
  (NormQuery # <<>> /\ \A id \in Store : ~isNull(objects[id])) =>
    /\ ~crashed
    /\ \A id \in Store : Visible(id) => SearchOK(objects[id])

\* C20: after a load of a document with a null entry the Record Store, the
\* Filter State of every dimension and the Color Map are empty (as they are
\* after a load that was rejected), and in no state are the Filter State or
\* the Color Map populated while the Record Store is empty.
C20_AtomicFailSafeLoad ==
  /\ (loaded /\ \E id \in DOMAIN objects : isNull(objects[id])) =>
       ecosystemProjects = <<>>
  /\ ecosystemProjects = <<>> => (filters = emptyFilters /\ colorMap = <<>>)

\* The traversal sequence of facet values built at load: the keys of the four
\* maps in the order category, status, target_audience, ecosystem.  counts
\* keeps the keys of the load in their insertion order.
Traversal == colorKeys(counts)

\* The colour assigned by position: P[i mod |P|] for the value at position i
\* (counted from 0) of the traversal.
ColourByPosition ==
  \A i \in 1..Len(Traversal) :
    /\ HasKey(colorMap, Traversal[i])
    /\ Get(colorMap, Traversal[i]) = colors[((i - 1) % Len(colors)) + 1]

\* Every key of every dimension's filter map has a colour.
EveryKeyColoured == \A D \in Dims : KeySet(filters[D]) \subseteq KeySet(colorMap)

\* C21: the value at position i of the traversal sequence built at load has
\* the colour P[i mod |P|] of the palette P, wrapping around when the
\* traversal is longer than the palette, and every key of every dimension's
\* filter map has a colour in the colour map.
\* Violated: a click on the chip of an ecosystem that is on a card but outside
\* the allow list adds that value as a key of filters.ecosystem (C6); the
\* colour map, built at load, has no colour for it.
C21_ColourByPosition == loaded => (ColourByPosition /\ EveryKeyColoured)

\* The part of C21 that holds: position decides the colour, and every key the
\* load made has a colour; the traversal reached is longer than the palette.
C21_PositionPart ==
  loaded => (ColourByPosition
             /\ \A D \in Dims : KeySet(counts[D]) \subseteq KeySet(colorMap))

C21_Wraps == loaded /\ Len(Traversal) > Len(colors)

\* The traversal the claim describes: the four dimensions in the order
\* category, status, target_audience, ecosystem, each in ascending order.
AlphabeticalTraversal ==
  sortStrings(Keys(counts.category)) \o sortStrings(Keys(counts.status))
    \o sortStrings(Keys(counts.target_audience))
    \o sortStrings(Keys(counts.ecosystem))

\* C22: the facet values are traversed for colour assignment dimension by
\* dimension (category, status, audience, ecosystem) and alphabetically inside
\* each dimension, so the colour map depends on the facet value sets only and
\* not on the order of the records: the colour map of the load is the one
\* assigned along the alphabetical traversal.
\* Violated: Object.keys yields the keys in insertion order, the order in
\* which the records of the document first mention the values.
C22_ColourTraversalOrder ==
  loaded =>
    /\ Traversal = AlphabeticalTraversal
    /\ colorMap = assignColors(AlphabeticalTraversal, Len(AlphabeticalTraversal))

\* The part of C22 that holds: the dimensions are traversed in the order
\* category, status, target_audience, ecosystem.
C22_DimensionOrder ==
  loaded =>
    \A i, j \in 1..Len(Traversal) :
      (/\ HasKey(counts.category, Traversal[i]) \/ HasKey(counts.status, Traversal[i])
       /\ HasKey(counts.target_audience, Traversal[j]) \/ HasKey(counts.ecosystem, Traversal[j]))
        => i < j

\* A step that toggles a chip whose label is a key of its dimension's map:
\* after load the flags change and no map gets a new key.
ToggleOnExistingKey ==
  /\ loaded
  /\ filters' # filters
  /\ \A D \in Dims : Keys(filters'[D]) = Keys(filters[D])

\* The flag of one value of one dimension is negated; every other flag of
\* that dimension and every other dimension's map are as before.
OneFlagNegated ==
  \E D \in Dims : \E v \in KeySet(filters[D]) :
    /\ Get(filters'[D], v) = ~Get(filters[D], v)
    /\ \A w \in KeySet(filters[D]) \ {v} : Get(filters'[D], w) = Get(filters[D], w)
    /\ \A E \in Dims \ {D} : filters'[E] = filters[E]

\* C23: a toggle on an existing key negates the flag of that value in its
\* dimension and leaves every other flag of the dimension, every other
\* dimension's map, the records of the store, the counts and the colour map
\* unchanged.  Starting from the all-false maps of the load, the step
\* property gives by induction that a flag is true iff its value was toggled
\* an odd number of times.
\* Violated: the render that follows the toggle pops the last sample of the
\* last-pushed series of every card it shows (C12), so the records change.
C23_ToggleOneFlag ==
  [][ToggleOnExistingKey =>
       (OneFlagNegated /\ UNCHANGED <<objects, ecosystemProjects, counts, colorMap>>)]_vars

\* The part of C23 that holds: one flag is negated, and the other flags, the
\* other maps, the list of records, the counts and the colour map stay.
C23_FlagPart ==
  [][ToggleOnExistingKey =>
       (OneFlagNegated /\ UNCHANGED <<ecosystemProjects, counts, colorMap>>)]_vars

\* The places <<group, position>> of the category block where item is shown.
Places(item) ==
  IF categoryShown = <<>> THEN {}
  ELSE {pl \in UNION {{<<g, i>> : i \in 1..Len(categoryShown[1][g].items)} :
                        g \in 1..Len(categoryShown[1])} :
          categoryShown[1][pl[1]].items[pl[2]] = item}

\* The named groups whose static membership list contains item.
GroupsOf(item) ==
  {g \in 1..Len(categoryGroups) : item \in Range(categoryGroups[g].items)}

\* C24: the category block is a partition of the category facet: every key of
\* the category map is shown once, in the one named group whose membership
\* list contains it, or in Other iff no membership list contains it; every
\* item shown is a key of the map; no group is shown without an item, and no
\* group is shown twice.
C24_CategoryGroupingPartition ==
  categoryShown # <<>> =>
    LET groups == categoryShown[1]
    IN /\ \A v \in KeySet(blockFilters) :
            /\ Cardinality(Places(v)) = 1
            /\ Cardinality(GroupsOf(v)) <= 1
            /\ \A pl \in Places(v) :
                 IF GroupsOf(v) = {}
                 THEN groups[pl[1]].title = "Other"
                 ELSE \E g \in GroupsOf(v) :
                        groups[pl[1]].title = categoryGroups[g].title
       /\ \A g \in 1..Len(groups) :
            /\ groups[g].items # <<>>
            /\ Range(groups[g].items) \subseteq KeySet(blockFilters)
            /\ \A h \in 1..Len(groups) : groups[h].title = groups[g].title => h = g

\* The map has the keys Wallet, Analytics, DeFi: Finance & Markets is shown
\* with DeFi and Wallet, Other with Analytics, and no other group.
C24_Witness ==
  /\ Keys(blockFilters) = <<"Wallet", "Analytics", "DeFi">>
  /\ categoryShown =
       <<<<[title |-> "Finance & Markets", items |-> <<"DeFi", "Wallet">>],
           [title |-> "Other", items |-> <<"Analytics">>]>>>>

====
